---- MODULE Spec2Model ----
(***************************************************************************)
(* The Booking view of the padel dashboard: the component state            *)
(* (startDate, endDate, bookings, loading, error), the fetch life cycle    *)
(* of fetchBookings, the response transformation convertApiResponse, the   *)
(* derived day sequence `dates` and the grid lookup getBookingStatus.      *)
(*                                                                         *)
(* JavaScript values are modelled by what the code does with them:         *)
(*   - a slot record carries presence flags for `date` and `hour`, so a    *)
(*     missing field behaves as `undefined` does in String(), `+ 1` and    *)
(*     template literals;                                                  *)
(*   - the lookup table is a function from key strings to booked markers;  *)
(*   - a dayjs value is the number of days since 2024-06-29, and           *)
(*     format("YYYY-MM-DD") / dayjs(str) convert between it and the text.  *)
(***************************************************************************)
EXTENDS Integers, Sequences, FiniteSets, TLC

VARIABLES
    startDate,    \* useState: "YYYY-MM-DD" text
    endDate,      \* useState: "YYYY-MM-DD" text
    bookings,     \* useState: lookup table, key -> booked marker
    loading,      \* useState: BOOLEAN
    error,        \* useState: NoError (null) or the banner text
    effectRan,    \* whether the mount effect has run
    btnDisabled,  \* `disabled` of the refresh button as last rendered
    reqs,         \* the axios.get calls issued so far, in start order
    lastData,     \* history: response.data of the last successful fetch
    apiData,      \* input of the transformation harness
    converted,    \* output of the transformation harness
    convDone      \* whether the harness has applied the transformation

vars == <<startDate, endDate, bookings, loading, error, effectRan,
          btnDisabled, reqs, lastData, apiData, converted, convDone>>

----------------------------------------------------------------------------
(* Bounds *)

MaxDay == 1        \* the pickers offer the days 0..MaxDay
MaxSlots == 1      \* records per response in the component specification
MaxRecords == 3    \* records per payload in the transformation harness
MaxFetches == 2    \* requests per mounted component, the mount request included

----------------------------------------------------------------------------
(* Strings *)

\* String.prototype.padStart(2, '0')
PadStart2(s) == IF Len(s) >= 2 THEN s ELSE IF Len(s) = 1 THEN "0" \o s ELSE "00"

\* dayjs(...).format("YYYY-MM-DD") of day n (day 0 is 2024-06-29)
Format(n) ==
    LET dom == 29 + n
    IN IF dom <= 30 THEN "2024-06-" \o PadStart2(ToString(dom))
                    ELSE "2024-07-" \o PadStart2(ToString(dom - 30))

Days == 0..MaxDay
DateStrs == {Format(n) : n \in Days}

\* dayjs(str) for the texts the pickers produce
Parse(s) == CHOOSE n \in Days : Format(n) = s

----------------------------------------------------------------------------
(* API payloads *)

HourValues == {9, 23}
SlotDates == {Format(1)}

Slot(hasDate, d, hasHour, h, b) ==
    [hasDate |-> hasDate, date |-> d, hasHour |-> hasHour, hour |-> h, booked |-> b]

Slots ==
    {Slot(TRUE, d, TRUE, h, "yes") : d \in SlotDates, h \in HourValues}
    \cup {Slot(TRUE, d, TRUE, 9, "") : d \in SlotDates}
    \cup {Slot(FALSE, "", TRUE, 9, "yes")}
    \cup {Slot(TRUE, d, FALSE, 0, "yes") : d \in SlotDates}

SeqsUpTo(S, n) == UNION {[1..k -> S] : k \in 0..n}

\* response.data: null, an object without booked_slots, or one with records
NullData == [isNull |-> TRUE, hasSlots |-> FALSE, booked_slots |-> <<>>]
NoSlotsData == [isNull |-> FALSE, hasSlots |-> FALSE, booked_slots |-> <<>>]
SlotsData(ss) == [isNull |-> FALSE, hasSlots |-> TRUE, booked_slots |-> ss]

Payloads(n) == {NullData, NoSlotsData} \cup {SlotsData(ss) : ss \in SeqsUpTo(Slots, n)}

----------------------------------------------------------------------------
(* convertApiResponse *)

EmptyTable == [k \in {} |-> ""]

\* converted[key] = value
Put(t, k, v) == [x \in DOMAIN t \cup {k} |-> IF x = k THEN v ELSE t[x]]

\* variant: the start hour is not padded
startHour_noPad(slot) ==
    IF slot.hasHour THEN ToString(slot.hour) ELSE "undefined"

\* String(slot.hour).padStart(2, '0')
startHour(slot) ==
    PadStart2(IF slot.hasHour THEN ToString(slot.hour) ELSE "undefined")

\* String(slot.hour + 1).padStart(2, '0'); undefined + 1 is NaN
endHour(slot) ==
    PadStart2(IF slot.hasHour THEN ToString(slot.hour + 1) ELSE "NaN")

timeRange(slot) == startHour(slot) \o ":00 - " \o endHour(slot) \o ":00"

\* `${slot.date}_${timeRange}`
slotKey(slot) ==
    (IF slot.hasDate THEN slot.date ELSE "undefined") \o "_" \o timeRange(slot)

\* the body of the forEach callback
convertSlot(acc, slot) == Put(acc, slotKey(slot), slot.booked)

RECURSIVE forEachSlot(_, _)
forEachSlot(acc, ss) ==
    IF ss = <<>> THEN acc
    ELSE forEachSlot(convertSlot(acc, Head(ss)), Tail(ss))

\* reading apiData.booked_slots of null raises a TypeError
convertThrows(data) == data.isNull

convertApiResponse(data) ==
    IF data.hasSlots THEN forEachSlot(EmptyTable, data.booked_slots)
    ELSE EmptyTable

----------------------------------------------------------------------------
(* Derived values of a render *)

\* the length Array.from({ length: n }, ...) uses: a negative n counts as 0
ArrayLength(n) == IF n > 0 THEN n ELSE 0

\* variant: the inclusive end day is not counted
datesOf_exclusive(sd, ed) ==
    LET start == Parse(sd)
        end == Parse(ed)
        totalDays == end - start
    IN [i \in 1..ArrayLength(totalDays) |-> start + (i - 1)]

datesOf(sd, ed) ==
    LET start == Parse(sd)
        end == Parse(ed)
        totalDays == (end - start) + 1
    IN [i \in 1..ArrayLength(totalDays) |-> start + (i - 1)]

dates == datesOf(startDate, endDate)

times == <<
    "05:00 - 06:00", "06:00 - 07:00", "07:00 - 08:00", "08:00 - 09:00",
    "09:00 - 10:00", "10:00 - 11:00", "11:00 - 12:00", "14:00 - 15:00",
    "15:00 - 16:00", "16:00 - 17:00", "17:00 - 18:00", "18:00 - 19:00",
    "19:00 - 20:00", "20:00 - 21:00", "21:00 - 22:00", "22:00 - 23:00",
    "23:00 - 00:00", "00:00 - 01:00", "01:00 - 02:00", "02:00 - 03:00",
    "03:00 - 04:00", "04:00 - 05:00" >>

getBookingKey(date, time) == Format(date) \o "_" \o time

\* bookings[key] and its coercion `!!bookingStatus`
isBooked(date, time) ==
    LET key == getBookingKey(date, time)
    IN key \in DOMAIN bookings /\ bookings[key] # ""

----------------------------------------------------------------------------
(* Component state *)

NoError == "null"
ErrorMessage == "Gagal memuat data booking"

\* a request in flight, with the table that was shown when it was issued
Request(before) == [status |-> "pending", before |-> before]

\* a request that resolved ("ok") or ended in the catch block ("failed")
Settled(status) == [status |-> status, before |-> EmptyTable]

pending == {i \in DOMAIN reqs : reqs[i].status = "pending"}

harnessVars == <<apiData, converted, convDone>>
dateVars == <<startDate, endDate>>

Init ==
    /\ startDate = Format(0)
    /\ endDate = Format(MaxDay)
    /\ bookings = EmptyTable
    /\ loading = FALSE
    /\ error = NoError
    /\ effectRan = FALSE
    /\ btnDisabled = FALSE
    /\ reqs = <<>>
    /\ lastData = NoSlotsData
    /\ apiData = NoSlotsData
    /\ converted = EmptyTable
    /\ convDone = FALSE

\* fetchBookings up to the await: setLoading(true), setError(null), axios.get
fetchStart ==
    /\ loading' = TRUE
    /\ error' = NoError
    /\ reqs' = Append(reqs, Request(bookings))
    /\ UNCHANGED <<bookings, lastData>>

\* useEffect(() => { fetchBookings() }, [])
MountEffect ==
    /\ ~effectRan
    /\ effectRan' = TRUE
    /\ fetchStart
    /\ UNCHANGED <<btnDisabled, dateVars, harnessVars>>

\* a re-render commits the current `loading` to the button; state set in an
\* effect or after an await is rendered by a later task, so a click can be
\* handled while the button still shows the previous value
Render ==
    /\ btnDisabled # loading
    /\ btnDisabled' = loading
    /\ UNCHANGED <<bookings, loading, error, effectRan, reqs, lastData,
                   dateVars, harnessVars>>

\* onClick={refreshData} on a button that is not disabled; the update made
\* in the click handler is rendered before the next event
refreshData ==
    /\ ~btnDisabled
    /\ Len(reqs) + (IF effectRan THEN 0 ELSE 1) < MaxFetches
    /\ fetchStart
    /\ btnDisabled' = TRUE
    /\ UNCHANGED <<effectRan, dateVars, harnessVars>>

\* variant: the catch block also resets the table
fetchFailed_clearsTable(i) ==
    /\ error' = ErrorMessage
    /\ loading' = FALSE
    /\ reqs' = [reqs EXCEPT ![i] = Settled("failed")]
    /\ bookings' = EmptyTable
    /\ UNCHANGED lastData

\* variant: setLoading(false) is skipped when the request fails
fetchFailed_noFinally(i) ==
    /\ error' = ErrorMessage
    /\ reqs' = [reqs EXCEPT ![i] = Settled("failed")]
    /\ UNCHANGED <<bookings, lastData, loading>>

\* the catch and finally blocks
fetchFailed(i) ==
    /\ error' = ErrorMessage
    /\ loading' = FALSE
    /\ reqs' = [reqs EXCEPT ![i] = Settled("failed")]
    /\ UNCHANGED <<bookings, lastData>>

\* variant: the response is merged into the previous table
FetchResolve_merge(i, data) ==
    /\ i \in pending
    /\ IF convertThrows(data)
       THEN fetchFailed(i)
       ELSE /\ bookings' = (LET c == convertApiResponse(data)
                            IN [k \in DOMAIN bookings \cup DOMAIN c |->
                                   IF k \in DOMAIN c THEN c[k] ELSE bookings[k]])
            /\ loading' = FALSE
            /\ reqs' = [reqs EXCEPT ![i] = Settled("ok")]
            /\ lastData' = data
            /\ UNCHANGED error
    /\ UNCHANGED <<effectRan, btnDisabled, dateVars, harnessVars>>

\* the request resolves with response.data = data
FetchResolve(i, data) ==
    /\ i \in pending
    /\ IF convertThrows(data)
       THEN fetchFailed(i)
       ELSE /\ bookings' = convertApiResponse(data)
            /\ loading' = FALSE
            /\ reqs' = [reqs EXCEPT ![i] = Settled("ok")]
            /\ lastData' = data
            /\ UNCHANGED error
    /\ UNCHANGED <<effectRan, btnDisabled, dateVars, harnessVars>>

\* the request rejects (network failure or non-2xx status)
FetchReject(i) ==
    /\ i \in pending
    /\ fetchFailed(i)
    /\ UNCHANGED <<effectRan, btnDisabled, dateVars, harnessVars>>

\* variant: picking a start date also fetches
ChangeStartDate_refetch(d) ==
    /\ d # startDate
    /\ startDate' = d
    /\ fetchStart
    /\ UNCHANGED <<endDate, effectRan, btnDisabled, harnessVars>>

\* FlatpickrInput onChange={setStartDate}
ChangeStartDate(d) ==
    /\ d # startDate
    /\ startDate' = d
    /\ UNCHANGED <<endDate, bookings, loading, error, effectRan, btnDisabled,
                   reqs, lastData, harnessVars>>

\* FlatpickrInput onChange={setEndDate}
ChangeEndDate(d) ==
    /\ d # endDate
    /\ endDate' = d
    /\ UNCHANGED <<startDate, bookings, loading, error, effectRan, btnDisabled,
                   reqs, lastData, harnessVars>>

Settle ==
    \E i \in DOMAIN reqs :
        \/ \E data \in Payloads(MaxSlots) : FetchResolve(i, data)
        \/ FetchReject(i)

Next ==
    \/ MountEffect
    \/ Render
    \/ refreshData
    \/ \E i \in DOMAIN reqs, data \in Payloads(MaxSlots) : FetchResolve(i, data)
    \/ \E i \in DOMAIN reqs : FetchReject(i)
    \/ \E d \in DateStrs : ChangeStartDate(d)
    \/ \E d \in DateStrs : ChangeEndDate(d)

Spec == Init /\ [][Next]_vars

\* the network answers every request it was sent
LiveSpec == Spec /\ WF_vars(Settle)

----------------------------------------------------------------------------
(* Transformation harness: convertApiResponse applied to a chosen payload *)

ConvInit ==
    /\ startDate = Format(0)
    /\ endDate = Format(MaxDay)
    /\ bookings = EmptyTable
    /\ loading = FALSE
    /\ error = NoError
    /\ effectRan = FALSE
    /\ btnDisabled = FALSE
    /\ reqs = <<>>
    /\ lastData = NoSlotsData
    /\ apiData \in Payloads(MaxRecords) \ {NullData}
    /\ converted = EmptyTable
    /\ convDone = FALSE

Convert ==
    /\ ~convDone
    /\ converted' = convertApiResponse(apiData)
    /\ convDone' = TRUE
    /\ UNCHANGED <<startDate, endDate, bookings, loading, error, effectRan,
                   btnDisabled, reqs, lastData, apiData>>

ConvNext == Convert

ConvSpec == ConvInit /\ [][ConvNext]_vars

----------------------------------------------------------------------------
(* Properties *)

succeeded == {i \in DOMAIN reqs : reqs[i].status = "ok"}
failed == {i \in DOMAIN reqs : reqs[i].status = "failed"}

\* the table of the last successful fetch, empty when none succeeded yet
lastTable == IF succeeded = {} THEN EmptyTable ELSE convertApiResponse(lastData)

\* request i fails in this step
FailStep(i) == i \in pending /\ reqs'[i].status = "failed"

\* C1 (amended): when a fetch fails, the error message is set and the table
\* is left as it was when the failure was handled, which is the table of the
\* last successful fetch (empty if none succeeded yet).
C1_FailureKeepsTable ==
    [][\A i \in DOMAIN reqs :
          FailStep(i) => /\ error' = ErrorMessage
                         /\ bookings' = bookings
                         /\ bookings' = lastTable]_vars

\* C1 (as stated): when a fetch fails, the error message is set and the table
\* is the one that was present when that fetch started.
C1_FailureKeepsTableAtStart ==
    [][\A i \in DOMAIN reqs :
          FailStep(i) => /\ error' = ErrorMessage
                         /\ bookings' = reqs[i].before]_vars

\* a fetch failed after an earlier one had filled the table
C1_Witness ==
    /\ failed # {}
    /\ error = ErrorMessage
    /\ bookings # EmptyTable
    /\ ~loading

\* C2: the table is always exactly the conversion of the last successful
\* response (or empty before the first success): no key of an earlier table
\* survives, no partial or mixed table is reachable.
C2_TableIsLastResponse == bookings = lastTable

\* two fetches have succeeded and the table shows records
C2_Witness ==
    /\ Cardinality(succeeded) >= 2
    /\ pending = {}
    /\ bookings # EmptyTable

\* C3: while a request is pending, loading is true.
C3_PendingImpliesLoading == pending # {} => loading

\* C4: the day sequence has end - start + 1 consecutive days starting at the
\* start day when end >= start, and is empty when end < start.
C4_DaySequence ==
    LET s == Parse(startDate)
        e == Parse(endDate)
    IN IF e >= s
       THEN /\ Len(dates) = e - s + 1
            /\ \A i \in 1..Len(dates) : dates[i] = s + (i - 1)
            /\ dates[1] = s
            /\ dates[Len(dates)] = e
       ELSE dates = <<>>

\* the user picked an end date before the start date
C4_Witness == Parse(endDate) < Parse(startDate) /\ dates = <<>>

\* two digits of a number, written out
TwoDigits(n) == IF n < 10 THEN "0" \o ToString(n) ELSE ToString(n)

\* the key the documentation gives for (date, hour)
DocKey(date, hour) ==
    date \o "_" \o TwoDigits(hour) \o ":00 - " \o TwoDigits(hour + 1) \o ":00"

WellFormed(slot) == slot.hasDate /\ slot.hasHour

\* the (date, hour) pair of a record, missing fields included
Pair(slot) == <<slot.hasDate, slot.date, slot.hasHour, slot.hour>>

DistinctPairs(ss) ==
    \A i, j \in DOMAIN ss : i # j => Pair(ss[i]) # Pair(ss[j])

\* C5 (amended): for a payload whose records have pairwise distinct
\* (date, hour) pairs, the table has exactly one entry per record, and each
\* record with a date and an hour is stored under {date}_{HH:00 - HH:00}
\* with its booked field as the value.
C5_OneEntryPerDistinctRecord ==
    convDone /\ DistinctPairs(apiData.booked_slots) =>
        /\ Cardinality(DOMAIN converted) = Len(apiData.booked_slots)
        /\ \A i \in DOMAIN apiData.booked_slots :
              LET slot == apiData.booked_slots[i]
              IN WellFormed(slot) =>
                    /\ DocKey(slot.date, slot.hour) \in DOMAIN converted
                    /\ converted[DocKey(slot.date, slot.hour)] = slot.booked

\* C5 (as stated): for every payload the table has exactly one entry per
\* record, and each record with a date and an hour is stored under
\* {date}_{HH:00 - HH:00} with its booked field as the value.
C5_OneEntryPerRecord ==
    convDone =>
        /\ Cardinality(DOMAIN converted) = Len(apiData.booked_slots)
        /\ \A i \in DOMAIN apiData.booked_slots :
              LET slot == apiData.booked_slots[i]
              IN WellFormed(slot) =>
                    /\ DocKey(slot.date, slot.hour) \in DOMAIN converted
                    /\ converted[DocKey(slot.date, slot.hour)] = slot.booked

\* a payload of several distinct records, one of them starting at 9, converted
C5_Witness ==
    /\ convDone
    /\ Len(apiData.booked_slots) >= 2
    /\ DistinctPairs(apiData.booked_slots)
    /\ \E i \in DOMAIN apiData.booked_slots :
          WellFormed(apiData.booked_slots[i]) /\ apiData.booked_slots[i].hour = 9

\* the entries of `times` that start at the given hour
SlotsStartingAt(hour) ==
    {times[k] : k \in {n \in DOMAIN times :
        \E e \in 0..24 : times[n] = TwoDigits(hour) \o ":00 - " \o TwoDigits(e) \o ":00"}}

\* the record marks the cell (date, time) as reserved
Marks(slot, date, time) ==
    /\ WellFormed(slot)
    /\ slot.booked # ""
    /\ slot.hour \in 0..23
    /\ slot.date = Format(date)
    /\ time \in SlotsStartingAt(slot.hour)

\* C6: after a successful fetch a cell of the grid is rendered reserved
\* exactly when a record of the response with a truthy booked value has the
\* cell's date and the hour its time slot starts at.
C6_CellReservedIffBookedRecord ==
    succeeded # {} =>
        \A k \in DOMAIN dates, n \in DOMAIN times :
            isBooked(dates[k], times[n]) <=>
                \E i \in DOMAIN lastData.booked_slots :
                    Marks(lastData.booked_slots[i], dates[k], times[n])

\* C7: records without a date or an hour add nothing to the table, the
\* well-formed records of the payload are converted as usual.
C7_MalformedSkipped ==
    convDone =>
        converted = forEachSlot(EmptyTable, SelectSeq(apiData.booked_slots, WellFormed))

InSuccess == ~loading /\ error = NoError /\ succeeded # {}
InError == ~loading /\ error = ErrorMessage

\* C8: every fetch trigger puts the component into loading, and when the
\* network answers, loading is followed by success or error with loading
\* false; this holds again for a trigger from a terminal state.
C8_Lifecycle ==
    /\ [][Len(reqs') > Len(reqs) => loading']_vars
    /\ (loading ~> (InSuccess \/ InError))

\* a refresh from a terminal state is loading again
C8_Witness ==
    /\ Len(reqs) >= 2
    /\ reqs[1].status # "pending"
    /\ reqs[2].status = "pending"
    /\ loading

\* C9: requests are issued only by the mount effect (exactly one) and by
\* refresh; picking a date issues none and leaves bookings, loading and
\* error unchanged.
C9_OnlyMountAndRefreshFetch ==
    [][/\ (reqs' # reqs /\ Len(reqs') # Len(reqs)) =>
              /\ Len(reqs') = Len(reqs) + 1
              /\ (MountEffect \/ refreshData)
       /\ (effectRan' # effectRan) => Len(reqs') = Len(reqs) + 1
       /\ (startDate' # startDate \/ endDate' # endDate) =>
              UNCHANGED <<bookings, loading, error, reqs>>]_vars

\* a date was picked while the mount request was in flight
C9_Witness ==
    /\ startDate # Format(0)
    /\ Len(reqs) = 1
    /\ pending = {1}
    /\ loading
    /\ dates # datesOf(Format(0), Format(MaxDay))

\* C10: with no request pending, an error is shown exactly when the most
\* recently started fetch failed.
C10_ErrorIffLastStartedFailed ==
    pending = {} =>
        (error # NoError <=> (reqs # <<>> /\ reqs[Len(reqs)].status = "failed"))

====
